---- MODULE Spec2Model ----
(***************************************************************************)
(* ExitOutPage (apps/frontend/src/pages/exit/ExitOutPage.jsx): the React   *)
(* page that shows the exit-out stack, polls it, releases one team and     *)
(* clears the whole stack.                                                 *)
(*                                                                         *)
(* The component's state hooks are the variables stack, stats, loading,    *)
(* releasing, toast and autoRefresh.  Every asynchronous call of the page  *)
(* (fetchStack, releaseTeam, clearStack) is a task whose position is kept  *)
(* in fetches, rel and clr: a task runs from one await to the next in one  *)
(* step, as JavaScript runs a callback to completion.  The backend and the *)
(* user are the environment: the backend's stack is srv, the user's        *)
(* clicks are the Click... actions.  React drops a state update of an      *)
(* unmounted component, so every setter is a no-op once phase is           *)
(* "unmounted", and the hooks of an unmounted page are kept as their       *)
(* initial values.  The timers carry no clock: a pending timer or a live   *)
(* interval can fire at any step.                                          *)
(***************************************************************************)
EXTENDS Integers, FiniteSets, Sequences, TLC

\* ---------------------------------------------------------------- bounds
\* Teams that can tap out (registrationId values).
Teams == {"T1", "T2"}
\* fetchStack calls of the effect, the interval and the Refresh button that
\* can be in flight together (re-fetches of releaseTeam and clearStack are
\* kept in their own task and do not count).
MaxInFlight == 1
\* Pending setTimeout callbacks of showToast (one more under SpecToasts).
MaxTimers == 1
\* Largest card count a response carries (stats.totalCards, result.released).
MaxCards == 1
\* Live setInterval timers (the code never holds more than one).
MaxIntervals == 2

\* A field of a response is << >> when absent and << value >> when present.
Undefined == << >>
Present(v) == << v >>
\* toast === null
Null == [message |-> << >>, type |-> "none"]

VARIABLES
  stack,        \* useState([]) : the registrationIds of the displayed entries
  stats,        \* useState({totalTeams: 0, totalCards: 0})
  loading,      \* useState(true)
  releasing,    \* useState(new Set())
  toast,        \* useState(null)
  autoRefresh,  \* useState(true)
  phase,        \* "new" (constructed), "mounted", "unmounted"
  intervals,    \* number of live setInterval(fetchStack, 3000) timers
  cleanup,      \* whether the last run of the effect returned a cleanup
  toastTimers,  \* number of pending setTimeout(() => setToast(null), 5000)
  fetches,      \* fetchStack calls in flight: slot -> task
  rel,          \* releaseTeam calls: team -> task
  clr,          \* the clearStack call
  srv,          \* the backend's stack: the teams with stacked cards
  teams,        \* the teams that take part (fixed from the start)
  timerCap,     \* the most timers of showToast that can be pending (fixed)
  lastResponse  \* the stack and stats of the last answer with success = true
                \* that the mounted page has processed

vars == << stack, stats, loading, releasing, toast, autoRefresh, phase,
           intervals, cleanup, toastTimers, fetches, rel, clr, srv,
           teams, timerCap, lastResponse >>

\* ------------------------------------------------------------- the tasks
\* pc: "idle"  no call
\*     "confirm" (clearStack) window.confirm is open
\*     "req"   the POST of releaseTeam / clearStack is awaited
\*     "sent"  api('/api/exitout/stack') is awaited, not yet answered
\*     "served" the backend has answered: snap is its stack at that time
\*             (what the answer carries when the request succeeds)
Idle == [pc |-> "idle", origin |-> "none", snap |-> {}]
Sent(o) == [pc |-> "sent", origin |-> o, snap |-> {}]
Served(o, s) == [pc |-> "served", origin |-> o, snap |-> s]
Req(o) == [pc |-> "req", origin |-> o, snap |-> {}]

Slots == 1..MaxInFlight
\* How a request ends: success = true, success = false, or it throws.
Kinds == {"ok", "fail", "throw"}

DefaultStats == [totalTeams |-> 0, totalCards |-> 0]
\* No answer has been processed with success = true.
NoResponse == [seen |-> FALSE, stack |-> {}, stats |-> DefaultStats]

\* The toast texts of the page, kept as tuples of their parts.
MsgFetchFailed == << "Failed to fetch stack data" >>
MsgFetchError == << "Error connecting to server" >>
MsgReleased(n, id) == << "Successfully released", n, "cards for team", id >>
MsgReleaseFailed(id) == << "Failed to release team", id >>
MsgReleaseError(id) == << "Error releasing team", id >>
MsgCleared == << "Stack cleared successfully" >>
MsgClearFailed == << "Failed to clear stack" >>
MsgClearError == << "Error clearing stack" >>

Mounted == phase = "mounted"

\* A state setter: React applies it while the component is mounted only.
SetState(old, new) == IF Mounted THEN new ELSE old

TypeOK ==
  /\ stack \in SUBSET Teams
  /\ stats \in [totalTeams : 0..Cardinality(Teams), totalCards : 0..MaxCards]
  /\ loading \in BOOLEAN
  /\ releasing \in SUBSET Teams
  /\ autoRefresh \in BOOLEAN
  /\ phase \in {"new", "mounted", "unmounted"}
  /\ intervals \in 0..MaxIntervals
  /\ cleanup \in BOOLEAN
  /\ timerCap \in {MaxTimers, MaxTimers + 1}
  /\ toastTimers \in 0..timerCap
  /\ srv \in SUBSET teams
  /\ teams \in SUBSET Teams

\* The state after construction: the initial values of the hooks (lines 9-14).
InitPage ==
  /\ stack = {}
  /\ stats = DefaultStats
  /\ loading = TRUE
  /\ releasing = {}
  /\ toast = Null
  /\ autoRefresh = TRUE
  /\ phase = "new"
  /\ intervals = 0
  /\ cleanup = FALSE
  /\ toastTimers = 0
  /\ fetches = [i \in Slots |-> Idle]
  /\ rel = [t \in Teams |-> Idle]
  /\ clr = Idle
  /\ lastResponse = NoResponse

\* One team takes part.
Init ==
  /\ InitPage
  /\ teams = {"T1"}
  /\ timerCap = MaxTimers
  /\ srv \in SUBSET teams

\* One team takes part and one more timer of showToast can be pending, so
\* that a toast can be shown while the timer of an earlier one is pending.
InitToasts ==
  /\ InitPage
  /\ teams = {"T1"}
  /\ timerCap = MaxTimers + 1
  /\ srv \in SUBSET teams

\* Two teams take part (about 5.9 million states with the bounds above).
InitTwo ==
  /\ InitPage
  /\ teams = Teams
  /\ timerCap = MaxTimers
  /\ srv \in SUBSET teams

\* ------------------------------------------------------- what is rendered
\* line 106: only the loader is rendered, none of the controls.
LoaderShown == loading /\ stack = {}
\* line 152: disabled of the Refresh button.
RefreshDisabled == loading
\* A Clear All Stack button that looks at loading alone.
ClearDisabledLoadingOnly == loading
\* line 159: disabled of the Clear All Stack button.
ClearDisabled == loading \/ stats.totalCards = 0
\* A Release All button that is never disabled.
ReleaseDisabledNever(id) == FALSE
\* line 207: disabled of the Release All button of one entry.
ReleaseDisabled(id) == id \in releasing
\* line 210: the label of the Release All button of one entry.
ReleaseLabel(id) == IF id \in releasing THEN "Releasing..." ELSE "Release All"

\* window.confirm blocks the page's thread: no callback runs while it is open.
JsIdle == clr.pc # "confirm"
\* The user can reach the controls of the page.
Interactive == Mounted /\ ~LoaderShown /\ JsIdle

\* ------------------------------------------------------------- showToast
\* A showToast that sets no timer.
ShowToastNoTimer(message, type) ==
  /\ toast' = SetState(toast, [message |-> message, type |-> type])
  /\ toastTimers' = toastTimers

\* lines 91-94: setToast({message, type}); setTimeout(() => setToast(null),
\* 5000).  The timer is never cleared.
ShowToast(message, type) ==
  /\ toastTimers < timerCap
  /\ toast' = SetState(toast, [message |-> message, type |-> type])
  /\ toastTimers' = toastTimers + 1

\* line 93, the timer's callback: setToast(null), whichever toast is shown.
\* All the timers have the same delay, so they fire in the order of the
\* showToast calls: the one that fires is the oldest of the pending ones, and
\* the newest pending one is that of the last toast shown.
ToastTimeout ==
  /\ JsIdle
  /\ toastTimers > 0
  /\ toastTimers' = toastTimers - 1
  /\ toast' = SetState(toast, Null)
  /\ UNCHANGED << stack, stats, loading, releasing, autoRefresh, phase,
                  intervals, cleanup, fetches, rel, clr, srv, teams,
                  timerCap, lastResponse >>

\* line 258: onClose of the Toast.
CloseToast ==
  /\ Interactive
  /\ toast # Null
  /\ toast' = Null
  /\ UNCHANGED << stack, stats, loading, releasing, autoRefresh, phase,
                  intervals, cleanup, toastTimers, fetches, rel, clr, srv,
                  teams, timerCap, lastResponse >>

\* ------------------------------------------------------------ fetchStack
\* x || d of JavaScript, for a field that is an array or an object when present.
OrDefault(x, d) == IF x = Undefined THEN d ELSE x[1]

\* The stats a successful answer can carry with the stack s: the team count
\* of s and any card total (the backend's totals are not validated), or none.
StatsOf(s) ==
  { [totalTeams |-> Cardinality(s), totalCards |-> c] : c \in 0..MaxCards }

\* What an answer with success = true carries: response.stack || [] and
\* response.stats || { totalTeams: 0, totalCards: 0 }.
Fields(respStack, respStats) ==
  [seen |-> TRUE, stack |-> OrDefault(respStack, {}),
   stats |-> OrDefault(respStats, DefaultStats)]

\* A fetchStack that takes the stack of the answer and keeps the old stats.
FetchSucceededStackOnly(respStack, respStats) ==
  /\ stack' = SetState(stack, OrDefault(respStack, {}))
  /\ stats' = stats
  /\ lastResponse' = SetState(lastResponse, Fields(respStack, respStats))
  /\ UNCHANGED << toast, toastTimers, teams, timerCap >>

\* A fetchStack that adds the answer's entries to the displayed ones.
FetchSucceededMerges(respStack, respStats) ==
  /\ stack' = SetState(stack, stack \cup OrDefault(respStack, {}))
  /\ stats' = SetState(stats, OrDefault(respStats, DefaultStats))
  /\ lastResponse' = SetState(lastResponse, Fields(respStack, respStats))
  /\ UNCHANGED << toast, toastTimers, teams, timerCap >>

\* lines 21-23: the answer has success = true.
FetchSucceeded(respStack, respStats) ==
  /\ stack' = SetState(stack, OrDefault(respStack, {}))
  /\ stats' = SetState(stats, OrDefault(respStats, DefaultStats))
  /\ lastResponse' = SetState(lastResponse, Fields(respStack, respStats))
  /\ UNCHANGED << toast, toastTimers, teams, timerCap >>

\* A failing fetchStack that empties what is displayed.
FetchFailedClears(kind) ==
  /\ ShowToast(IF kind = "fail" THEN MsgFetchFailed ELSE MsgFetchError, "error")
  /\ stack' = SetState(stack, {})
  /\ stats' = SetState(stats, DefaultStats)
  /\ UNCHANGED lastResponse

\* lines 24-30: the answer has success = false, or the request threw.
FetchFailed(kind) ==
  /\ ShowToast(IF kind = "fail" THEN MsgFetchFailed ELSE MsgFetchError, "error")
  /\ UNCHANGED << stack, stats, teams, timerCap, lastResponse >>

\* A fetchStack without its finally.
FetchStackBodyNoFinally(task) ==
  /\ \E kind \in Kinds :
       IF kind = "ok"
       THEN \E respStack \in {Present(task.snap), Undefined} :
            \E respStats \in {Present(st) : st \in StatsOf(task.snap)} \cup {Undefined} :
              FetchSucceeded(respStack, respStats)
       ELSE FetchFailed(kind)
  /\ loading' = loading

\* lines 20-33: fetchStack from the answer of its request to its end.
FetchStackBody(task) ==
  /\ \E kind \in Kinds :
       IF kind = "ok"
       THEN \E respStack \in {Present(task.snap), Undefined} :
            \E respStats \in {Present(st) : st \in StatsOf(task.snap)} \cup {Undefined} :
              FetchSucceeded(respStack, respStats)
       ELSE FetchFailed(kind)
  /\ loading' = SetState(loading, FALSE)

\* line 20: fetchStack up to its await, called by the effect, the interval
\* or the Refresh button: the request takes the first free slot.
IssueFetch(o) ==
  \E i \in Slots :
    /\ fetches[i].pc = "idle"
    /\ \A j \in Slots : j < i => fetches[j].pc # "idle"
    /\ fetches' = [fetches EXCEPT ![i] = Sent(o)]

\* The backend answers a request for the stack with its stack of the moment.
Answer(task) == Served(task.origin, srv)

FetchServe(i) ==
  /\ fetches[i].pc = "sent"
  /\ fetches' = [fetches EXCEPT ![i] = Answer(fetches[i])]
  /\ UNCHANGED << stack, stats, loading, releasing, toast, autoRefresh, phase,
                  intervals, cleanup, toastTimers, rel, clr, srv,
                  teams, timerCap, lastResponse >>

FetchDone(i) ==
  /\ JsIdle
  /\ fetches[i].pc = "served"
  /\ FetchStackBody(fetches[i])
  /\ fetches' = [fetches EXCEPT ![i] = Idle]
  /\ UNCHANGED << releasing, autoRefresh, phase, intervals, cleanup, rel, clr,
                  srv, teams, timerCap >>

\* line 151: the Refresh button.
ClickRefresh ==
  /\ Interactive
  /\ ~RefreshDisabled
  /\ IssueFetch("manual")
  /\ UNCHANGED << stack, stats, loading, releasing, toast, autoRefresh, phase,
                  intervals, cleanup, toastTimers, rel, clr, srv,
                  teams, timerCap, lastResponse >>

\* --------------------------------------------------- the auto-refresh effect
\* A cleanup that leaves the interval running.
EffectCleanupNone(n, hasCleanup) == n
\* line 102: the cleanup the effect returned clears its interval.
EffectCleanup(n, hasCleanup) == IF hasCleanup THEN n - 1 ELSE n
\* lines 100-101: the effect sets an interval when autoRefresh is on.
EffectInterval(n, on) == IF on THEN n + 1 ELSE n

\* lines 97-104: one run of the effect, after the cleanup of the run before.
RunEffect(on) ==
  /\ IssueFetch("effect")
  /\ EffectInterval(EffectCleanup(intervals, cleanup), on) <= MaxIntervals
  /\ intervals' = EffectInterval(EffectCleanup(intervals, cleanup), on)
  /\ cleanup' = on

Mount ==
  /\ phase = "new"
  /\ phase' = "mounted"
  /\ RunEffect(autoRefresh)
  /\ UNCHANGED << stack, stats, loading, releasing, toast, autoRefresh,
                  toastTimers, rel, clr, srv, teams, timerCap, lastResponse >>

\* line 144: the checkbox; the change of autoRefresh re-runs the effect.
ToggleAutoRefresh ==
  /\ Interactive
  /\ autoRefresh' = ~autoRefresh
  /\ RunEffect(~autoRefresh)
  /\ UNCHANGED << stack, stats, loading, releasing, toast, phase,
                  toastTimers, rel, clr, srv, teams, timerCap, lastResponse >>

\* line 101: a tick of a live interval calls fetchStack.
PollTick ==
  /\ JsIdle
  /\ intervals > 0
  /\ IssueFetch("poll")
  /\ UNCHANGED << stack, stats, loading, releasing, toast, autoRefresh, phase,
                  intervals, cleanup, toastTimers, rel, clr, srv,
                  teams, timerCap, lastResponse >>

\* An unmount that runs no cleanup.
UnmountNoCleanup ==
  /\ Mounted
  /\ JsIdle
  /\ phase' = "unmounted"
  /\ stack' = {} /\ stats' = DefaultStats /\ loading' = TRUE
  /\ releasing' = {} /\ toast' = Null /\ autoRefresh' = TRUE
  /\ lastResponse' = NoResponse
  /\ UNCHANGED << intervals, cleanup, toastTimers, fetches, rel, clr, srv,
                  teams, timerCap >>

\* Unmounting runs the cleanup of the last run of the effect and discards
\* the state of the hooks (kept here as their initial values).
Unmount ==
  /\ Mounted
  /\ JsIdle
  /\ phase' = "unmounted"
  /\ intervals' = EffectCleanup(intervals, cleanup)
  /\ cleanup' = FALSE
  /\ stack' = {} /\ stats' = DefaultStats /\ loading' = TRUE
  /\ releasing' = {} /\ toast' = Null /\ autoRefresh' = TRUE
  /\ lastResponse' = NoResponse
  /\ UNCHANGED << toastTimers, fetches, rel, clr, srv, teams, timerCap >>

\* ----------------------------------------------------------- releaseTeam
\* A releaseTeam that does not mark its team.
ReleasingAddNone(prev, id) == prev
\* line 38: setReleasing(prev => new Set([...prev, registrationId]))
ReleasingAdd(prev, id) == prev \cup {id}
\* A finally that empties the set.
ReleasingDeleteAll(prev, id) == {}
\* A finally that leaves the set as it was.
ReleasingDeleteKept(prev, id) == prev
\* lines 58-62: setReleasing(prev => { newSet.delete(registrationId) ... })
ReleasingDelete(prev, id) == prev \ {id}

\* lines 206, 38-41: the Release All button of a displayed entry.
ClickRelease(id) ==
  /\ Interactive
  /\ id \in stack
  /\ ~ReleaseDisabled(id)
  /\ releasing' = SetState(releasing, ReleasingAdd(releasing, id))
  /\ rel' = [rel EXCEPT ![id] = Req("release")]
  /\ UNCHANGED << stack, stats, loading, toast, autoRefresh, phase, intervals,
                  cleanup, toastTimers, fetches, clr, srv, teams,
                  timerCap, lastResponse >>

\* lines 57-63: the finally of releaseTeam.
ReleaseFinally(id) ==
  /\ releasing' = SetState(releasing, ReleasingDelete(releasing, id))
  /\ rel' = [rel EXCEPT ![id] = Idle]

\* lines 43-49: success = true with result.released = n; the backend has
\* released the team.  fetchStack is called and runs up to its await.
ReleaseSucceeded(id, n) ==
  /\ srv' = srv \ {id}
  /\ ShowToast(MsgReleased(n, id), "success")
  /\ rel' = [rel EXCEPT ![id] = Sent("release")]
  /\ UNCHANGED releasing

\* A failure branch whose toast does not name the team.
ReleaseFailedGeneric(id) ==
  /\ srv' = srv
  /\ ShowToast(MsgFetchFailed, "error")
  /\ ReleaseFinally(id)

\* lines 50-53: success = false; the backend has released nothing.
ReleaseFailed(id) ==
  /\ srv' = srv
  /\ ShowToast(MsgReleaseFailed(id), "error")
  /\ ReleaseFinally(id)

\* lines 54-56: the request threw (the backend may have released the team or
\* not), or the answer has success = true and no result, so that reading
\* result.released throws inside the try.
ReleaseThrew(id) ==
  /\ srv' \in {srv, srv \ {id}}
  /\ ShowToast(MsgReleaseError(id), "error")
  /\ ReleaseFinally(id)

\* lines 41-63: releaseTeam from the answer of its POST.
ReleaseDone(id) ==
  /\ JsIdle
  /\ rel[id].pc = "req"
  /\ \/ \E n \in 0..MaxCards : ReleaseSucceeded(id, n)
     \/ ReleaseFailed(id)
     \/ ReleaseThrew(id)
  /\ UNCHANGED << stack, stats, loading, autoRefresh, phase, intervals,
                  cleanup, fetches, clr, teams, timerCap, lastResponse >>

\* The backend answers the re-fetch of releaseTeam.
ReleaseFetchServe(id) ==
  /\ rel[id].pc = "sent"
  /\ rel' = [rel EXCEPT ![id] = Answer(rel[id])]
  /\ UNCHANGED << stack, stats, loading, releasing, toast, autoRefresh, phase,
                  intervals, cleanup, toastTimers, fetches, clr, srv,
                  teams, timerCap, lastResponse >>

\* line 49 and lines 57-63: the awaited fetchStack ends and releaseTeam runs
\* on to its finally (its continuation is the next microtask).
ReleaseFetchDone(id) ==
  /\ JsIdle
  /\ rel[id].pc = "served"
  /\ FetchStackBody(rel[id])
  /\ ReleaseFinally(id)
  /\ UNCHANGED << autoRefresh, phase, intervals, cleanup, fetches, clr, srv,
                  teams, timerCap >>

\* ------------------------------------------------------------ clearStack
\* line 158 and line 68: the Clear All Stack button opens window.confirm.
\* One clearStack call is kept: a click on the button while a call is in
\* flight (the button can be enabled then) is left out.
ClickClear ==
  /\ Interactive
  /\ ~ClearDisabled
  /\ clr.pc = "idle"
  /\ clr' = [Idle EXCEPT !.pc = "confirm"]
  /\ UNCHANGED << stack, stats, loading, releasing, toast, autoRefresh, phase,
                  intervals, cleanup, toastTimers, fetches, rel, srv,
                  teams, timerCap, lastResponse >>

\* A clearStack that sets loading before it asks.
ConfirmDeclineLoading ==
  /\ clr.pc = "confirm"
  /\ clr' = Idle
  /\ loading' = SetState(loading, TRUE)
  /\ UNCHANGED << stack, stats, releasing, toast, autoRefresh, phase,
                  intervals, cleanup, toastTimers, fetches, rel, srv,
                  teams, timerCap, lastResponse >>

\* lines 68-70: the user declines, clearStack returns.
ConfirmDecline ==
  /\ clr.pc = "confirm"
  /\ clr' = Idle
  /\ UNCHANGED << stack, stats, loading, releasing, toast, autoRefresh, phase,
                  intervals, cleanup, toastTimers, fetches, rel, srv,
                  teams, timerCap, lastResponse >>

\* lines 72-74: the user accepts: setLoading(true) and the POST.
ConfirmAccept ==
  /\ clr.pc = "confirm"
  /\ loading' = SetState(loading, TRUE)
  /\ clr' = Req("clear")
  /\ UNCHANGED << stack, stats, releasing, toast, autoRefresh, phase,
                  intervals, cleanup, toastTimers, fetches, rel, srv,
                  teams, timerCap, lastResponse >>

\* A clearStack without its finally.
ClearFinallyKeepsLoading ==
  /\ loading' = loading
  /\ clr' = Idle

\* lines 85-87: the finally of clearStack.
ClearFinally ==
  /\ loading' = SetState(loading, FALSE)
  /\ clr' = Idle

\* lines 76-78: success = true; the backend has cleared its stack.
ClearSucceeded ==
  /\ srv' = {}
  /\ ShowToast(MsgCleared, "success")
  /\ clr' = Sent("clear")
  /\ UNCHANGED loading

\* lines 79-81: success = false.
ClearFailed ==
  /\ srv' = srv
  /\ ShowToast(MsgClearFailed, "error")
  /\ ClearFinally

\* A catch branch that calls showToast without a type (the default, 'info').
ClearThrewInfo ==
  /\ srv' \in {srv, {}}
  /\ ShowToast(MsgClearError, "info")
  /\ ClearFinally

\* lines 82-84: the request threw; the backend may have cleared its stack.
ClearThrew ==
  /\ srv' \in {srv, {}}
  /\ ShowToast(MsgClearError, "error")
  /\ ClearFinally

\* lines 74-87: clearStack from the answer of its POST.
ClearDone ==
  /\ clr.pc = "req"
  /\ \/ ClearSucceeded
     \/ ClearFailed
     \/ ClearThrew
  /\ UNCHANGED << stack, stats, releasing, autoRefresh, phase, intervals,
                  cleanup, fetches, rel, teams, timerCap, lastResponse >>

\* The backend answers the re-fetch of clearStack.
ClearFetchServe ==
  /\ clr.pc = "sent"
  /\ clr' = Answer(clr)
  /\ UNCHANGED << stack, stats, loading, releasing, toast, autoRefresh, phase,
                  intervals, cleanup, toastTimers, fetches, rel, srv,
                  teams, timerCap, lastResponse >>

\* line 78 and lines 85-87: the awaited fetchStack ends (its finally sets
\* loading to false) and clearStack runs on to its own finally.
ClearFetchDone ==
  /\ clr.pc = "served"
  /\ FetchStackBody(clr)
  /\ ClearFinally
  /\ UNCHANGED << releasing, autoRefresh, phase, intervals, cleanup, fetches,
                  rel, srv, teams, timerCap >>

\* --------------------------------------------------------------- backend
\* A team taps out: the backend stacks its cards.
ExitTap(id) ==
  /\ id \notin srv
  /\ srv' = srv \cup {id}
  /\ UNCHANGED << stack, stats, loading, releasing, toast, autoRefresh, phase,
                  intervals, cleanup, toastTimers, fetches, rel, clr,
                  teams, timerCap, lastResponse >>

Next ==
  \/ Mount
  \/ Unmount
  \/ ToggleAutoRefresh
  \/ PollTick
  \/ ClickRefresh
  \/ \E i \in Slots : FetchServe(i)
  \/ \E i \in Slots : FetchDone(i)
  \/ \E id \in teams : ClickRelease(id)
  \/ \E id \in teams : ReleaseDone(id)
  \/ \E id \in teams : ReleaseFetchServe(id)
  \/ \E id \in teams : ReleaseFetchDone(id)
  \/ ClickClear
  \/ ConfirmDecline
  \/ ConfirmAccept
  \/ ClearDone
  \/ ClearFetchServe
  \/ ClearFetchDone
  \/ ToastTimeout
  \/ CloseToast
  \/ \E id \in teams : ExitTap(id)

Spec == Init /\ [][Next]_vars

SpecTwo == InitTwo /\ [][Next]_vars

SpecToasts == InitToasts /\ [][Next]_vars

\* The page for as long as the user leaves Clear All Stack alone: every step
\* but those of clearStack.
NextReleases ==
  \/ Mount
  \/ Unmount
  \/ ToggleAutoRefresh
  \/ PollTick
  \/ ClickRefresh
  \/ \E i \in Slots : FetchServe(i)
  \/ \E i \in Slots : FetchDone(i)
  \/ \E id \in teams : ClickRelease(id)
  \/ \E id \in teams : ReleaseDone(id)
  \/ \E id \in teams : ReleaseFetchServe(id)
  \/ \E id \in teams : ReleaseFetchDone(id)
  \/ ToastTimeout
  \/ CloseToast
  \/ \E id \in teams : ExitTap(id)

\* Two teams take part and no clearStack is started.
SpecReleases == InitTwo /\ [][NextReleases]_vars

\* The event loop runs every callback that is ready, the timers fire and
\* the requests complete; a callback that shows a toast can be held back by
\* the bound on the timers only for as long as a timer is pending, and any
\* callback by window.confirm only until the user answers: strong fairness.
\* The user's clicks, the interval's ticks and the taps are not forced.
\* ReleaseFairness is the part of it that the releaseTeam calls rest on.
ReleaseFairness ==
  /\ \A id \in Teams : /\ SF_vars(ReleaseDone(id))
                        /\ WF_vars(ReleaseFetchServe(id))
                        /\ SF_vars(ReleaseFetchDone(id))
  /\ SF_vars(ToastTimeout)
  /\ WF_vars(ConfirmAccept \/ ConfirmDecline)

FairRelease == Spec /\ ReleaseFairness

\* The part of the event loop's fairness that the loading flag rests on: the
\* fetchStack calls of the effect, the interval and the Refresh button, and
\* the clearStack call.
LoadingFairness ==
  /\ \A i \in Slots : WF_vars(FetchServe(i)) /\ SF_vars(FetchDone(i))
  /\ SF_vars(ClearDone)
  /\ WF_vars(ClearFetchServe)
  /\ SF_vars(ClearFetchDone)
  /\ SF_vars(ToastTimeout)
  /\ WF_vars(ConfirmAccept \/ ConfirmDecline)

FairLoading == Spec /\ LoadingFairness

\* ---------------------------------------------------------------- steps
\* A step in which fetchStack is called with origin o and sends its request.
Issued(o) ==
  \/ \E i \in Slots : /\ fetches[i].pc = "idle"
                       /\ fetches'[i].pc = "sent"
                       /\ fetches'[i].origin = o
  \/ \E id \in Teams : /\ rel[id].pc = "req"
                        /\ rel'[id].pc = "sent"
                        /\ rel'[id].origin = o
  \/ clr.pc = "req" /\ clr'.pc = "sent" /\ clr'.origin = o

\* A step in which a fetchStack call runs from its answer to its end.
FetchEnds ==
  \/ \E i \in Slots : fetches[i].pc = "served" /\ fetches'[i].pc = "idle"
  \/ \E id \in Teams : rel[id].pc = "served" /\ rel'[id].pc = "idle"
  \/ clr.pc = "served" /\ clr'.pc = "idle"

\* The fetchStack calls that run from their answer to their end in the step,
\* as they were before it: snap is the stack their answer carries.
EndingFetches ==
  { fetches[i] : i \in { j \in Slots : fetches[j].pc = "served"
                                        /\ fetches'[j].pc = "idle" } }
    \cup { rel[id] : id \in { t \in Teams : rel[t].pc = "served"
                                             /\ rel'[t].pc = "idle" } }
    \cup (IF clr.pc = "served" /\ clr'.pc = "idle" THEN {clr} ELSE {})

\* showToast was called in the step.
ToastShown == toastTimers' = toastTimers + 1

\* A timer of showToast fires in the step.
TimerFires == toastTimers' = toastTimers - 1

\* A step in which a fetchStack call ends in failure: it is the failing
\* branches of fetchStack that call showToast.
FetchFails == FetchEnds /\ ToastShown

\* A step in which the POST of a releaseTeam call ends in failure (success =
\* false, or it throws): the call ends without its re-fetch.
ReleaseFails == \E id \in Teams : rel[id].pc = "req" /\ rel'[id].pc = "idle"

\* A step in which the POST of clearStack ends in failure.
ClearFails == clr.pc = "req" /\ clr'.pc = "idle"

\* The origins of the fetchStack calls.
Origins == {"effect", "poll", "manual", "release", "clear"}

\* A step in which a fetchStack call ends with success = true.
FetchSucceeds == FetchEnds /\ ~ToastShown

\* The releaseTeam calls that end in the step.
ReleaseEnds == { id \in Teams : rel[id].pc # "idle" /\ rel'[id].pc = "idle" }


\* ---------------------------------------------------------------- claims

\* C1: while the page is mounted, a team is in the releasing set exactly
\* when a releaseTeam call for it has started and has not finished, and for
\* as long as the call runs the team's Release control is disabled and shows
\* the busy label.
C1_BusyExactlyWhileReleasing ==
  Mounted =>
    \A id \in Teams :
      /\ id \in releasing <=> rel[id].pc # "idle"
      /\ rel[id].pc # "idle" =>
           ReleaseDisabled(id) /\ ReleaseLabel(id) = "Releasing..."

\* C1 witness: a release of T1 has succeeded and its re-fetch is answered but
\* not yet processed; T1 is still busy.
C1_Witness ==
  /\ Mounted
  /\ rel["T1"].pc = "served"
  /\ "T1" \in releasing
  /\ ReleaseLabel("T1") = "Releasing..."

\* C2: every releaseTeam call whose requests complete ends, and when it has
\* ended the team is not in the releasing set, whatever the outcome of the
\* release and of the re-fetch.
C2_ReleasingEventuallyCleared ==
  \A id \in Teams :
    (rel[id].pc # "idle") ~> (rel[id].pc = "idle" /\ id \notin releasing)

\* C2 witness: a release of T1 was answered with success = false and has
\* ended; T1 is no longer busy.
C2_Witness ==
  /\ Mounted
  /\ rel["T1"].pc = "idle"
  /\ "T1" \notin releasing
  /\ toast = [message |-> MsgReleaseFailed("T1"), type |-> "error"]

\* C3: a fetchStack call that fails leaves stack and stats (and autoRefresh
\* and the releasing set, but for the team whose releaseTeam ends with it)
\* as they were; on the mounted page it sets loading to false and the toast
\* to one of its two error toasts.
C3_FailedFetchKeepsDisplay ==
  [][ FetchFails =>
        /\ stack' = stack
        /\ stats' = stats
        /\ autoRefresh' = autoRefresh
        /\ releasing' = releasing \ ReleaseEnds
        /\ Mounted =>
             /\ loading' = FALSE
             /\ toast' \in { [message |-> m, type |-> "error"] :
                              m \in {MsgFetchFailed, MsgFetchError} } ]_vars

\* C3 witness: a fetch has failed while a stack was displayed; the stack is
\* still displayed under the error toast.
C3_Witness ==
  /\ Mounted
  /\ toast = [message |-> MsgFetchError, type |-> "error"]
  /\ stack # {}
  /\ stats.totalCards > 0
  /\ ~loading

\* C4 as stated: while auto-refresh is off on the mounted page, no step
\* issues a fetch other than those of Refresh, releaseTeam and clearStack.
C4_AsStated ==
  [][ (Mounted' /\ ~autoRefresh') => ~Issued("effect") /\ ~Issued("poll") ]_vars

\* C4, what the code does instead: a tick of the interval issues a fetch
\* only on the mounted page with auto-refresh on; the effect issues its
\* immediate fetch on mount and on every toggle of auto-refresh, off as well
\* as on; and the step that toggles auto-refresh leaves one interval running
\* when it turns it on and none when it turns it off.
C4_ToggleRerunsEffect ==
  [][ /\ Issued("poll") => Mounted /\ autoRefresh /\ autoRefresh'
      /\ Issued("effect") => phase = "new" \/ autoRefresh' # autoRefresh
      /\ (Mounted /\ Mounted' /\ autoRefresh' # autoRefresh) =>
           /\ Issued("effect")
           /\ intervals' = (IF autoRefresh' THEN 1 ELSE 0) ]_vars

\* C4, the state after the toggle: auto-refresh has been toggled off, the
\* immediate fetch of the effect's re-run is in flight, no interval is left.
C4_AfterToggleOff ==
  /\ Mounted
  /\ ~autoRefresh
  /\ intervals = 0
  /\ \E i \in Slots : fetches[i].pc = "sent" /\ fetches[i].origin = "effect"

\* C5: once the page is unmounted no interval is live and no step issues a
\* fetch from an interval tick.
C5_NoPollAfterUnmount ==
  /\ [](phase = "unmounted" => intervals = 0 /\ ~ENABLED PollTick)
  /\ [][ phase' = "unmounted" => ~Issued("poll") ]_vars

\* C5 witness: the page was unmounted with auto-refresh toggled (the fetch of
\* the effect's re-run is still in flight) and no interval is left.
C5_Witness ==
  /\ phase = "unmounted"
  /\ intervals = 0
  /\ \E i \in Slots : fetches[i].pc = "served" /\ fetches[i].origin = "effect"
  /\ stack = {} /\ srv # {}

\* C6: the POST of clearStack is sent only from the open confirmation, and
\* a declined confirmation changes nothing of the page: no hook, no request
\* in flight, no timer.
C6_ClearOnlyAfterConfirm ==
  [][ /\ (clr'.pc = "req" /\ clr.pc # "req") => clr.pc = "confirm"
      /\ (clr.pc = "confirm" /\ clr'.pc = "idle") =>
           UNCHANGED << stack, stats, loading, releasing, toast, autoRefresh,
                        phase, intervals, toastTimers, fetches, rel, srv >>
    ]_vars

\* C6 witness: the confirmation is open on a page that shows entries.
C6_Witness ==
  /\ clr.pc = "confirm"
  /\ Mounted
  /\ stack # {}
  /\ ~loading

\* C7 as stated: whenever the displayed stack has no entries the Clear All
\* Stack control is disabled.
C7_AsStated == (Mounted /\ stack = {}) => ClearDisabled

\* C8: in every state with stats.totalCards = 0, the initial one included,
\* the Clear All Stack control is disabled and clearStack cannot be started.
C8_NoCardsNoClear ==
  stats.totalCards = 0 => ClearDisabled /\ ~ENABLED ClickClear

\* C8 witness: the page is interactive and shows entries, but the stats of
\* the last answer count no cards.
C8_Witness ==
  /\ Mounted
  /\ ~loading
  /\ stack # {}
  /\ stats.totalCards = 0
  /\ clr.pc = "idle"

\* C9 as stated: whatever the answer of the clear call, clearStack shows a
\* toast and goes on to re-fetch the stack before it finishes.
C9_AsStated ==
  [][ (clr.pc = "req" /\ clr'.pc # "req") =>
        ToastShown /\ Issued("clear") ]_vars

\* C9 amended: the accepted confirmation sets loading; the clear call's
\* answer shows the toast of its outcome; only success = true goes on to
\* re-fetch the stack, success = false and a thrown request end clearStack
\* with no fetch issued; and loading is false when clearStack has ended.
C9_ClearOutcomes ==
  [][ /\ (clr.pc = "confirm" /\ clr'.pc = "req") => (Mounted => loading')
      /\ (clr.pc = "req" /\ clr'.pc = "sent") =>
           /\ ToastShown
           /\ Issued("clear")
           /\ Mounted => toast' = [message |-> MsgCleared, type |-> "success"]
      /\ (clr.pc = "req" /\ clr'.pc = "idle") =>
           /\ ToastShown
           /\ fetches' = fetches /\ rel' = rel
           /\ Mounted =>
                /\ toast' \in { [message |-> m, type |-> "error"] :
                                 m \in {MsgClearFailed, MsgClearError} }
                /\ ~loading'
      /\ (clr.pc = "served" /\ clr'.pc = "idle") => (Mounted => ~loading')
    ]_vars

\* C9 witness: the clear call was answered with success = false: its error
\* toast is shown, clearStack has ended, loading is false, nothing was
\* fetched.
C9_Witness ==
  /\ Mounted
  /\ clr.pc = "idle"
  /\ toast = [message |-> MsgClearFailed, type |-> "error"]
  /\ ~loading
  /\ \A i \in Slots : fetches[i].pc = "idle"

\* C10 as stated: when a releaseTeam call that succeeded has finished and
\* the backend no longer stacks the team, the displayed stack has no entry
\* for it.
C10_AsStated ==
  [][ \A id \in Teams :
        (rel[id].pc = "served" /\ rel'[id].pc = "idle" /\ Mounted'
           /\ id \notin srv') => id \notin stack' ]_vars

\* C10 amended: release success shows the success toast with the released
\* count and the team and issues the re-fetch; when the re-fetch succeeds,
\* the stack displayed as releaseTeam finishes is the one its answer carried
\* (none when the answer has no stack), so the team's entry is gone when
\* the answer no longer lists it.
C10_ReleaseRefetch ==
  [][ \A id \in Teams :
        /\ (rel[id].pc = "req" /\ rel'[id].pc = "sent") =>
             /\ ToastShown
             /\ Issued("release")
             /\ Mounted =>
                  \E n \in 0..MaxCards :
                    toast' = [message |-> MsgReleased(n, id), type |-> "success"]
        /\ (rel[id].pc = "served" /\ rel'[id].pc = "idle"
              /\ ~ToastShown /\ Mounted) =>
             /\ stack' \in {rel[id].snap, {}}
             /\ id \notin rel[id].snap => id \notin stack'
    ]_vars

\* C10 witness: the release of T1 and its re-fetch have succeeded: the
\* success toast is shown, releaseTeam has ended and T1's entry is gone.
C10_Witness ==
  /\ Mounted
  /\ rel["T1"].pc = "idle"
  /\ "T1" \notin releasing
  /\ "T1" \notin stack
  /\ "T1" \notin srv
  /\ toast = [message |-> MsgReleased(1, "T1"), type |-> "success"]

\* C11: a releaseTeam call that fails (success = false, or the request
\* throws) shows an error toast that names its team, issues no fetch and
\* leaves the displayed stack and stats as they were.
C11_ReleaseFailureKeepsList ==
  [][ \A id \in Teams :
        (rel[id].pc = "req" /\ rel'[id].pc = "idle") =>
          /\ ToastShown
          /\ stack' = stack
          /\ stats' = stats
          /\ fetches' = fetches /\ clr' = clr
          /\ \A o \in {"effect", "poll", "manual", "release", "clear"} :
               ~Issued(o)
          /\ Mounted =>
               toast' \in { [message |-> m, type |-> "error"] :
                               m \in {MsgReleaseFailed(id), MsgReleaseError(id)} }
    ]_vars

\* C11 witness: the release of T1 threw: its error toast is shown, the call
\* has ended and T1's entry is still displayed.
C11_Witness ==
  /\ Mounted
  /\ rel["T1"].pc = "idle"
  /\ "T1" \in stack
  /\ toast = [message |-> MsgReleaseError("T1"), type |-> "error"]

\* C12: when the requests complete, every fetchStack call of the effect, the
\* interval and the Refresh button and every confirmed clearStack call ends,
\* whatever the answers, and loading does not stay true on the mounted page:
\* it is false again at some later time (or the page has been unmounted).
C12_LoadingEventuallyFalse ==
  /\ \A i \in Slots : (fetches[i].pc # "idle") ~> (fetches[i].pc = "idle")
  /\ (clr.pc \in {"req", "sent", "served"}) ~> (clr.pc = "idle")
  /\ (Mounted /\ loading) ~> (~loading \/ phase = "unmounted")

\* C12 witness: the first fetch of the page was answered with success =
\* false: nothing is in flight, nothing is displayed but the error toast,
\* and loading is false.
C12_Witness ==
  /\ Mounted
  /\ ~loading
  /\ stack = {}
  /\ srv # {}
  /\ toast = [message |-> MsgFetchFailed, type |-> "error"]
  /\ \A i \in Slots : fetches[i].pc = "idle"
  /\ clr.pc = "idle"
  /\ \A id \in Teams : rel[id].pc = "idle"

\* C13: a fetch, release or clear call that fails, whether its answer has
\* success = false or its request throws, is handled in the same way: the
\* step shows a toast of type error, the handler runs to its end (its task
\* is idle afterwards), no request is sent in the step and no other call is
\* touched, and the displayed stack and stats stay as they were.
C13_FailuresHandledAlike ==
  [][ (FetchFails \/ ReleaseFails \/ ClearFails) =>
        /\ ToastShown
        /\ Mounted => toast'.type = "error"
        /\ \A o \in Origins : ~Issued(o)
        /\ \A i \in Slots : fetches'[i] \in {fetches[i], Idle}
        /\ \A id \in Teams : rel'[id] \in {rel[id], Idle}
        /\ clr' \in {clr, Idle}
        /\ stack' = stack /\ stats' = stats
    ]_vars

\* C13 witness: the clear request threw after the backend had cleared its
\* stack: the error toast is shown, clearStack has ended, nothing is in
\* flight and the page still displays the entries.
C13_Witness ==
  /\ Mounted
  /\ clr.pc = "idle"
  /\ toast = [message |-> MsgClearError, type |-> "error"]
  /\ \A i \in Slots : fetches[i].pc = "idle"
  /\ srv = {}
  /\ stack # {}

\* C14: every toast is dismissed by a timer no later than the delay after
\* showToast set it: as long as a toast is displayed a timer of showToast is
\* pending (the newest one is its own), and a timer that fires sets the
\* toast to null.
C14_ToastAutoDismissed ==
  /\ []((Mounted /\ toast # Null) => toastTimers > 0)
  /\ [][ (TimerFires /\ Mounted') => toast' = Null ]_vars

\* C14 witness: a toast was replaced by a newer one, the error toast of a
\* failed fetch, while its timer was pending: two timers are pending.
C14_Witness ==
  /\ Mounted
  /\ toast = [message |-> MsgFetchFailed, type |-> "error"]
  /\ toastTimers = 2

\* C18 as stated: a timer of showToast that fires while a later timer is
\* pending (it is the timer of an earlier toast) leaves the displayed toast,
\* the one of the last showToast, as it is.
C18_AsStated ==
  [][ (TimerFires /\ toastTimers > 1 /\ Mounted') => toast' = toast ]_vars

\* C15: last write wins.  On the mounted page the displayed stack and stats
\* are changed together and only by a fetchStack call that processes an
\* answer with success = true, whichever call it is and in whatever order the
\* answers arrive; after that step both are the fields of that one answer
\* (the stack it carries and stats that count that stack's teams; an absent
\* field is displayed as the empty stack or as zero stats).
C15_LastWriteWins ==
  /\ []((Mounted /\ lastResponse.seen) =>
          stack = lastResponse.stack /\ stats = lastResponse.stats)
  /\ [][ Mounted' =>
            /\ (stack' # stack \/ stats' # stats) => FetchSucceeds
            /\ FetchSucceeds =>
                 \A task \in EndingFetches :
                   /\ lastResponse'.seen
                   /\ stack' \in {task.snap, {}}
                   /\ stats' \in StatsOf(task.snap) \cup {DefaultStats}
        ]_vars

\* C15 witness: a poll sent before the release of T1 was answered after it
\* and processed last: the page displays that answer's stack and stats,
\* with T1, although the backend no longer stacks T1.
C15_Witness ==
  /\ Mounted
  /\ stack = {"T1"}
  /\ stats = [totalTeams |-> 1, totalCards |-> 1]
  /\ srv = {}
  /\ rel["T1"].pc = "idle"
  /\ toast = [message |-> MsgReleased(1, "T1"), type |-> "success"]
  /\ \A i \in Slots : fetches[i].pc = "idle"
  /\ lastResponse.seen

\* C16: the releaseTeam calls of different teams are tracked independently.
\* On the mounted page the step in which releaseTeam(A) starts adds A to the
\* releasing set, the step in which it ends (its POST fails, or its re-fetch
\* is processed) removes A, its success step leaves the set alone, and none
\* of them adds or removes another team or touches another team's call.
C16_ReleasesIndependent ==
  [][ \A a \in Teams :
        (rel'[a] # rel[a] /\ Mounted') =>
          /\ (rel[a].pc = "idle") => releasing' = releasing \cup {a}
          /\ (rel'[a].pc = "idle") => releasing' = releasing \ {a}
          /\ (rel[a].pc # "idle" /\ rel'[a].pc # "idle") =>
               releasing' = releasing
          /\ \A b \in Teams \ {a} :
               /\ b \in releasing' <=> b \in releasing
               /\ rel'[b] = rel[b]
    ]_vars

\* C16 witness: the releases of T1 and T2 were in flight together; that of
\* T1 has failed and T1 is no longer busy, that of T2 has succeeded and its
\* re-fetch is answered, and T2 is still busy.
C16_Witness ==
  /\ Mounted
  /\ rel["T1"].pc = "idle"
  /\ toast = [message |-> MsgReleaseFailed("T1"), type |-> "error"]
  /\ rel["T2"].pc = "served"
  /\ releasing = {"T2"}

\* C17 as stated: while the confirmed clear call is in flight (its POST or
\* its re-fetch is awaited) loading is true and the Refresh and Clear All
\* Stack controls are disabled.
C17_AsStated ==
  (Mounted /\ clr.pc \in {"req", "sent", "served"}) =>
    loading /\ RefreshDisabled /\ ClearDisabled

\* C19: at most one releaseTeam call per team is in flight.  A call for a
\* team is started only by a click on the team's enabled Release control on
\* the interactive page, and for as long as the call is in flight the
\* control is disabled and no second call for the team can be started,
\* whatever is fetched or displayed meanwhile.
C19_OneReleasePerTeam ==
  /\ [](\A id \in Teams :
          (Mounted /\ rel[id].pc # "idle") =>
            ReleaseDisabled(id) /\ ~ENABLED ClickRelease(id))
  /\ [][ \A id \in Teams :
            (rel[id].pc = "idle" /\ rel'[id].pc # "idle") =>
              /\ Interactive /\ id \in stack /\ ~ReleaseDisabled(id)
              /\ rel'[id].pc = "req"
        ]_vars

\* C19 witness: the release of T1 is in flight on the interactive page, T1's
\* entry is displayed and its control is disabled.
C19_Witness ==
  /\ Interactive
  /\ ~loading
  /\ "T1" \in stack
  /\ rel["T1"].pc = "req"
  /\ ReleaseDisabled("T1")
  /\ \A i \in Slots : fetches[i].pc = "idle"

\* C20: at most one interval is live, and one is live exactly when the page
\* is mounted with auto-refresh on: every run of the effect and the unmount
\* first clear the interval of the run before.
C20_OneIntervalWhenOn ==
  /\ intervals <= 1
  /\ intervals = 1 <=> (Mounted /\ autoRefresh)
  /\ cleanup <=> intervals = 1

\* C20 witness: auto-refresh was toggled off and on again: the fetch of the
\* effect's last run is in flight and one interval is live.
C20_Witness ==
  /\ Mounted
  /\ autoRefresh
  /\ intervals = 1
  /\ ~loading
  /\ \E i \in Slots : fetches[i].pc = "sent" /\ fetches[i].origin = "effect"

====
